---- MODULE Spec2Model ----
(***************************************************************************)
(* The Shopify -> TikTok webhook forwarder of src/server.js.  The file     *)
(* holds two iterations of the same service: variant 1 (lines 1-257) and   *)
(* variant 2 (lines 258-414).  A deployment runs one of them, with one     *)
(* value of NODE_ENV, both fixed at startup.                               *)
(*                                                                         *)
(* A request is: accepted (headers), its body read from the stream, the    *)
(* handler run synchronously up to its first await (the outbound fetch),   *)
(* and resumed when the fetch settles.                                     *)
(*                                                                         *)
(* Assumed of the deployment: SHOPIFY_WEBHOOK_SECRET is set, and requests  *)
(* carry Content-Type application/json (as Shopify sends them).            *)
(***************************************************************************)
EXTENDS Integers, Sequences, FiniteSets, TLC

VARIABLES
    variant,    \* which iteration of server.js is deployed: 1 or 2
    NODE_ENV,   \* process.env.NODE_ENV, read once at startup
    pc,         \* per request: idle, reading, buffered, ready, awaiting, done
    input,      \* per request: what the client sent, [hdr, body]
    data,       \* per request: the chunks the body reader has collected
    req,        \* per request: the req object the handler sees
    sent,       \* per request: the HTTP responses sent, in order
    calls,      \* per request: the outbound fetch calls started, in order
    settled     \* per request: how its outbound fetch settled

vars == <<variant, NODE_ENV, pc, input, data, req, sent, calls, settled>>

-----------------------------------------------------------------------------
(* Bounds and program constants *)

\* Requests in flight at once in the concurrent specification.
MaxInFlight == 2

\* Characters of a base64-encoded SHA-256 HMAC: .digest('base64').
DigestLen == 44

\* The timeout option of variant 1's fetch, in milliseconds.
FetchTimeoutMs == 15000

-----------------------------------------------------------------------------
(* JavaScript values *)

Undef == [t |-> "undefined", n |-> 0, s |-> ""]
Null == [t |-> "null", n |-> 0, s |-> ""]
Bool(b) == [t |-> "boolean", n |-> IF b THEN 1 ELSE 0, s |-> ""]
Num(n) == [t |-> "number", n |-> n, s |-> ""]
Str(s) == [t |-> "string", n |-> 0, s |-> s]

\* ToBoolean, as used by !x, x || y and if (x).
Truthy(v) ==
    CASE v.t = "undefined" -> FALSE
      [] v.t = "null" -> FALSE
      [] v.t = "boolean" -> v.n = 1
      [] v.t = "number" -> v.n # 0
      [] OTHER -> v.s # ""

Digit(d) ==
    CASE d = 0 -> "0" [] d = 1 -> "1" [] d = 2 -> "2" [] d = 3 -> "3"
      [] d = 4 -> "4" [] d = 5 -> "5" [] d = 6 -> "6" [] d = 7 -> "7"
      [] d = 8 -> "8" [] OTHER -> "9"

RECURSIVE NatToString(_)
NatToString(n) ==
    IF n < 10 THEN Digit(n) ELSE NatToString(n \div 10) \o Digit(n % 10)

\* String(v)
JSString(v) ==
    CASE v.t = "undefined" -> "undefined"
      [] v.t = "null" -> "null"
      [] v.t = "boolean" -> (IF v.n = 1 THEN "true" ELSE "false")
      [] v.t = "number" -> (IF v.n < 0 THEN "-" \o NatToString(0 - v.n)
                            ELSE NatToString(v.n))
      [] OTHER -> v.s

\* A JSON document: an object with the order fields the handler reads, or
\* the document null.  A field the document lacks reads as undefined.
OrderDoc(id, test, cancelled_at, financial_status) ==
    [t |-> "object", id |-> id, test |-> test, cancelled_at |-> cancelled_at,
     financial_status |-> financial_status, code |-> Undef]
ReplyDoc(code) ==
    [t |-> "object", id |-> Undef, test |-> Undef, cancelled_at |-> Undef,
     financial_status |-> Undef, code |-> code]
EmptyObject == ReplyDoc(Undef)
NullDoc == [ReplyDoc(Undef) EXCEPT !.t = "null"]

\* Reading a property of null throws a TypeError.
PropertyReadThrows(doc) == doc.t = "null"

-----------------------------------------------------------------------------
(* Bytes: request and response bodies *)

JsonText(doc) == [text |-> "json", doc |-> doc]
EmptyBuffer == [text |-> "empty", doc |-> NullDoc]
Garbage == [text |-> "garbage", doc |-> NullDoc]

\* The chunks a body arrives in on the request stream.
Chunks(body) == IF body.text = "empty" THEN <<>> ELSE <<body>>

\* Buffer.concat(data): two JSON texts in a row are not a JSON text.
BufferConcat(chunks) ==
    IF Len(chunks) = 0 THEN EmptyBuffer
    ELSE IF Len(chunks) = 1 THEN chunks[1]
    ELSE Garbage

\* JSON.parse(buffer.toString('utf8'))
JSONParse(buf) ==
    IF buf.text = "json" THEN [ok |-> TRUE, value |-> buf.doc]
    ELSE [ok |-> FALSE, value |-> NullDoc]

-----------------------------------------------------------------------------
(* HMAC and the signature header *)

Secret == "SHOPIFY_WEBHOOK_SECRET"
ForgedKey == "not-the-secret"

\* crypto.createHmac('sha256', key).update(buf).digest('base64')
HmacBase64(key, buf) ==
    [present |-> TRUE, len |-> DigestLen, key |-> key, msg |-> buf]

NoHeader == [present |-> FALSE, len |-> 0, key |-> "", msg |-> EmptyBuffer]
EmptyHeader == [present |-> TRUE, len |-> 0, key |-> "", msg |-> EmptyBuffer]
Truncated(h) == [h EXCEPT !.len = h.len - 1]

\* !hmacHeader
HeaderMissing(h) == ~h.present \/ h.len = 0

\* crypto.timingSafeEqual(a, b): throws when the byte lengths differ.
timingSafeEqual(a, b) ==
    IF a.len # b.len THEN "throw"
    ELSE IF a.key = b.key /\ a.msg = b.msg THEN "true"
    ELSE "false"

verifyShopifyWebhookV1(r) ==
    IF HeaderMissing(r.hmacHeader) THEN "false"
    ELSE LET digest == HmacBase64(Secret, r.raw)
             cmp == timingSafeEqual(digest, r.hmacHeader)
         IN  IF cmp = "throw" THEN "false" ELSE cmp

verifyShopifyWebhookV2(r) ==
    IF HeaderMissing(r.hmacHeader) THEN "false"
    ELSE LET digest == HmacBase64(Secret, r.raw)
         IN  timingSafeEqual(digest, r.hmacHeader)

-----------------------------------------------------------------------------
(* The handler, up to its first await *)

Response(status, text) == [status |-> status, text |-> text]

Finish(resp) == [sent |-> <<resp>>, calls |-> <<>>, pc |-> "done"]
Caught == Finish(Response(500, "Error"))
Await(call) == [sent |-> <<>>, calls |-> <<call>>, pc |-> "awaiting"]

IsTestOrderStringCompare(order) == order.test = Str("true")
IsTestOrder(order) == order.test = Bool(TRUE)

IsCancelledOnly(order) == Truthy(order.cancelled_at)
IsCancelledOrRefunded(order) ==
    Truthy(order.cancelled_at) \/ order.financial_status = Str("refunded")

eventIdMisnamedField(order) == JSString(Undef)
eventId(order) == JSString(order.id)

\* sendTikTokPurchase up to its fetch: the payload and the fetch options.
sendTikTokPurchaseV1(order) ==
    Await([event_id |-> eventId(order), timeout |-> FetchTimeoutMs])

sendTikTokPurchaseV2(order) ==
    Await([event_id |-> eventId(order), timeout |-> 0])

WebhookHandlerV1(env, r) ==
    LET gate == IF env = "production" THEN verifyShopifyWebhookV1(r) ELSE "true"
        parsed == JSONParse(r.raw)
        order == parsed.value
    IN  IF gate = "throw" THEN Caught
        ELSE IF gate = "false" THEN Finish(Response(401, "Invalid HMAC"))
        ELSE IF ~parsed.ok THEN Caught
        ELSE IF PropertyReadThrows(order) THEN Caught
        ELSE IF IsTestOrder(order)
             THEN Finish(Response(200, "Ignored test order"))
        ELSE IF IsCancelledOrRefunded(order)
             THEN Finish(Response(200, "Ignored cancelled order"))
        ELSE sendTikTokPurchaseV1(order)

WebhookHandlerV2(env, r) ==
    LET gate == IF env = "production" THEN verifyShopifyWebhookV2(r) ELSE "true"
        order == r.body
    IN  IF gate = "throw" THEN Caught
        ELSE IF gate = "false" THEN Finish(Response(401, "Invalid HMAC"))
        ELSE IF PropertyReadThrows(order) THEN Caught
        ELSE IF IsTestOrder(order)
             THEN Finish(Response(200, "Ignored test order"))
        ELSE IF env = "development"
             THEN Finish(Response(200, "OK (local test)"))
        ELSE sendTikTokPurchaseV2(order)

WebhookHandler(v, env, r) ==
    IF v = 1 THEN WebhookHandlerV1(env, r) ELSE WebhookHandlerV2(env, r)

-----------------------------------------------------------------------------
(* The handler, resumed when the fetch settles *)

\* How a fetch settles: it rejects (network error, timeout), or resolves
\* with a response that is 2xx or not and carries a body.
Rejected == [kind |-> "reject", ok |-> FALSE, body |-> EmptyBuffer]
Resolved(ok, body) == [kind |-> "response", ok |-> ok, body |-> body]
NotSettled == [kind |-> "pending", ok |-> FALSE, body |-> EmptyBuffer]

\* data.code === 0 (variant 1) and data.code !== 0 (variant 2)
CodeIsFalsy(dat) == ~Truthy(dat.code)
CodeIsZero(dat) == dat.code = Num(0)
CodeIsNotZero(dat) == dat.code # Num(0)

\* Variant 1: resp.text(), then JSON.parse and data.code === 0 inside a try
\* whose catch rethrows.
InterpretResponseV1(o) ==
    IF o.kind = "reject" THEN "threw"
    ELSE IF o.ok
         THEN LET parsed == JSONParse(o.body)
              IN  IF ~parsed.ok THEN "threw"
                  ELSE IF PropertyReadThrows(parsed.value) THEN "threw"
                  ELSE IF CodeIsZero(parsed.value) THEN "returned"
                  ELSE "threw"
    ELSE "threw"

\* Variant 2: resp.json(), then !resp.ok || data.code !== 0.
InterpretResponseV2(o) ==
    IF o.kind = "reject" THEN "threw"
    ELSE LET parsed == JSONParse(o.body)
         IN  IF ~parsed.ok THEN "threw"
             ELSE IF ~o.ok THEN "threw"
             ELSE IF PropertyReadThrows(parsed.value) THEN "threw"
             ELSE IF CodeIsNotZero(parsed.value) THEN "threw"
             ELSE "returned"

InterpretResponse(v, o) ==
    IF v = 1 THEN InterpretResponseV1(o) ELSE InterpretResponseV2(o)

\* After await sendTikTokPurchase(...): respond OK, or the catch-all's 500.
HandlerResumeNoCatch(result) ==
    IF result = "returned" THEN <<Response(200, "OK")>> ELSE <<>>
HandlerResume(result) ==
    IF result = "returned" THEN <<Response(200, "OK")>>
    ELSE <<Response(500, "Error")>>

-----------------------------------------------------------------------------
(* Reading the body *)

\* data.push(chunk) on the request's own array.
PushShared(r, chunk) == [s \in DOMAIN data |-> Append(data[s], chunk)]
Push(r, chunk) == [data EXCEPT ![r] = Append(@, chunk)]

NoReq == [hmacHeader |-> NoHeader, raw |-> EmptyBuffer, body |-> NullDoc]
NoInput == [hdr |-> NoHeader, body |-> EmptyBuffer]

\* Variant 1: express.raw leaves the bytes in req.body.
\* Variant 2: the middleware keeps req.rawBody and sets req.body to the
\* parsed document, or to {} when parsing fails.
BodyParsed(v, hdr, buf) ==
    [hmacHeader |-> hdr,
     raw |-> buf,
     body |-> IF v = 1 THEN NullDoc
              ELSE IF JSONParse(buf).ok THEN JSONParse(buf).value
              ELSE EmptyObject]

-----------------------------------------------------------------------------
(* Inputs *)

Ids == {Undef, Num(1001), Num(7), Str("1001")}
TestFlags == {Undef, Bool(TRUE), Str("true")}
CancelledAts == {Null, Str("2024-05-01T10:00:00Z")}
FinancialStatuses == {Str("paid"), Str("refunded")}

Orders ==
    {OrderDoc(i, t, c, f) :
        i \in Ids, t \in TestFlags, c \in CancelledAts, f \in FinancialStatuses}

Bodies == {JsonText(o) : o \in Orders} \cup {JsonText(NullDoc), EmptyBuffer, Garbage}

OtherBody(b) == IF b = Garbage THEN EmptyBuffer ELSE Garbage

\* Signature headers a client may send with body b.
HeadersFor(b) ==
    {NoHeader, EmptyHeader, HmacBase64(Secret, b), HmacBase64(ForgedKey, b),
     HmacBase64(Secret, OtherBody(b)), Truncated(HmacBase64(Secret, b))}

ReplyBodies ==
    {Garbage, JsonText(NullDoc)} \cup
    {JsonText(ReplyDoc(c)) : c \in {Num(0), Num(40001), Undef, Str("0")}}

Outcomes ==
    {Rejected} \cup {Resolved(TRUE, b) : b \in ReplyBodies}
    \cup {Resolved(FALSE, b) : b \in {Garbage, JsonText(ReplyDoc(Num(0)))}}

\* The smaller alphabet of the concurrent specification.
PlainOrder(i) == OrderDoc(i, Undef, Null, Str("paid"))
ConcBodies ==
    {JsonText(PlainOrder(Num(1001))), JsonText(PlainOrder(Num(7))),
     JsonText(OrderDoc(Num(1001), Bool(TRUE), Null, Str("paid"))), Garbage}
ConcHeadersFor(b) == {HmacBase64(Secret, b), NoHeader}
ConcOutcomes ==
    {Rejected, Resolved(TRUE, JsonText(ReplyDoc(Num(0)))),
     Resolved(TRUE, JsonText(ReplyDoc(Num(40001))))}

Envs == {"production", "development", ""}

-----------------------------------------------------------------------------
(* State machine *)

Setup(slots) ==
    /\ variant \in {1, 2}
    /\ NODE_ENV \in Envs
    /\ pc = [r \in slots |-> "idle"]
    /\ input = [r \in slots |-> NoInput]
    /\ data = [r \in slots |-> <<>>]
    /\ req = [r \in slots |-> NoReq]
    /\ sent = [r \in slots |-> <<>>]
    /\ calls = [r \in slots |-> <<>>]
    /\ settled = [r \in slots |-> NotSettled]

Init == Setup({1})
ConcInit == Setup(1..MaxInFlight)

\* The request line and headers arrive; the body reader starts collecting.
Receive(r, b, h) ==
    /\ pc[r] = "idle"
    /\ input' = [input EXCEPT ![r] = [hdr |-> h, body |-> b]]
    /\ pc' = [pc EXCEPT ![r] = "reading"]
    /\ UNCHANGED <<variant, NODE_ENV, data, req, sent, calls, settled>>

\* A 'data' event: the chunk is pushed.
Data(r) ==
    /\ pc[r] = "reading"
    /\ Len(Chunks(input[r].body)) > 0
    /\ data' = Push(r, Chunks(input[r].body)[1])
    /\ pc' = [pc EXCEPT ![r] = "buffered"]
    /\ UNCHANGED <<variant, NODE_ENV, input, req, sent, calls, settled>>

\* The 'end' event: the chunks are concatenated and the handler is next.
End(r) ==
    /\ \/ pc[r] = "buffered"
       \/ pc[r] = "reading" /\ Len(Chunks(input[r].body)) = 0
    /\ req' = [req EXCEPT
                 ![r] = BodyParsed(variant, input[r].hdr, BufferConcat(data[r]))]
    /\ pc' = [pc EXCEPT ![r] = "ready"]
    /\ UNCHANGED <<variant, NODE_ENV, input, data, sent, calls, settled>>

\* The handler runs to a response or to its await of the outbound fetch.
Handle(r) ==
    /\ pc[r] = "ready"
    /\ LET h == WebhookHandler(variant, NODE_ENV, req[r])
       IN  /\ sent' = [sent EXCEPT ![r] = @ \o h.sent]
           /\ calls' = [calls EXCEPT ![r] = @ \o h.calls]
           /\ pc' = [pc EXCEPT ![r] = h.pc]
    /\ UNCHANGED <<variant, NODE_ENV, input, data, req, settled>>

Resume(r, o) ==
    /\ settled' = [settled EXCEPT ![r] = o]
    /\ sent' = [sent EXCEPT
                  ![r] = @ \o HandlerResume(InterpretResponse(variant, o))]
    /\ pc' = [pc EXCEPT ![r] = "done"]
    /\ UNCHANGED <<variant, NODE_ENV, input, data, req, calls>>

\* The network settles the fetch: a rejection or a response.
FetchSettle(r, o) ==
    /\ pc[r] = "awaiting"
    /\ Resume(r, o)

\* The fetch's own timer rejects it, when the call set a timeout.
FetchTimeout(r) ==
    /\ pc[r] = "awaiting"
    /\ calls[r][Len(calls[r])].timeout > 0
    /\ Resume(r, Rejected)

ReceiveAny == \E r \in DOMAIN pc : \E b \in Bodies : \E h \in HeadersFor(b) : Receive(r, b, h)
ConcReceiveAny ==
    \E r \in DOMAIN pc : \E b \in ConcBodies : \E h \in ConcHeadersFor(b) : Receive(r, b, h)
DataAny == \E r \in DOMAIN pc : Data(r)
EndAny == \E r \in DOMAIN pc : End(r)
HandleAny == \E r \in DOMAIN pc : Handle(r)
FetchSettleAny == \E r \in DOMAIN pc : \E o \in Outcomes : FetchSettle(r, o)
ConcFetchSettleAny == \E r \in DOMAIN pc : \E o \in ConcOutcomes : FetchSettle(r, o)
FetchTimeoutAny == \E r \in DOMAIN pc : FetchTimeout(r)

Next ==
    \/ ReceiveAny
    \/ DataAny
    \/ EndAny
    \/ HandleAny
    \/ FetchSettleAny
    \/ FetchTimeoutAny

ConcNext ==
    \/ ConcReceiveAny
    \/ DataAny
    \/ EndAny
    \/ HandleAny
    \/ ConcFetchSettleAny
    \/ FetchTimeoutAny

\* One request at a time, the full input alphabet.
Spec == Init /\ [][Next]_vars

\* Several requests in flight, a smaller alphabet.
ConcSpec == ConcInit /\ [][ConcNext]_vars

\* The event loop runs a ready handler, and a timer that was set fires.
\* Nothing obliges the ad platform to reply.
FairSpec == Spec /\ WF_vars(Handle(1)) /\ WF_vars(FetchTimeout(1))

-----------------------------------------------------------------------------
(* Properties *)

Requests == DOMAIN pc
Done(r) == pc[r] = "done"
Started(r) == pc[r] \in {"awaiting", "done"}
Enforcing == NODE_ENV = "production"
LocalMode == variant = 2 /\ NODE_ENV = "development"

\* The header the client sent is the base64 HMAC-SHA256 of the body it sent.
SignatureValid(r) == input[r].hdr = HmacBase64(Secret, input[r].body)
GatePassed(r) == ~Enforcing \/ SignatureValid(r)

\* The body the client sent is a JSON object: an order.
IsOrder(r) == input[r].body.text = "json" /\ input[r].body.doc.t = "object"
OrderSent(r) == input[r].body.doc
SentTestOrder(r) == IsOrder(r) /\ OrderSent(r).test = Bool(TRUE)
SentCancelledOrder(r) ==
    /\ IsOrder(r)
    /\ \/ OrderSent(r).cancelled_at.t = "string"
       \/ OrderSent(r).financial_status = Str("refunded")
SentWellFormedOrder(r) ==
    IsOrder(r) /\ OrderSent(r).id.t \in {"number", "string"}

Answered(r, status) == Len(sent[r]) = 1 /\ sent[r][1].status = status
NoOutboundCall(r) == calls[r] = <<>>

\* C1: along every path of the handler a request gets at most one HTTP
\* response, exactly one once the handler has terminated, and the Forwarder's
\* fetch is started at most once.
C1_OneResponseAtMostOneCall ==
    \A r \in Requests :
        /\ Len(sent[r]) <= 1
        /\ Len(calls[r]) <= 1
        /\ Done(r) => Len(sent[r]) = 1
        /\ ~Done(r) => sent[r] = <<>>

\* C1 witness: a request that went through the forward-failure path.
C1_Witness ==
    \E r \in Requests :
        Done(r) /\ Len(calls[r]) = 1 /\ Answered(r, 500)
        /\ settled[r].kind = "response"

\* C2: every received request is eventually answered, also when the ad
\* platform never replies.
C2_EveryRequestAnswered == (pc[1] = "ready") ~> (pc[1] = "done")

\* C3: in enforcing mode a request without a signature header, or with one
\* that is not the HMAC of the body, is answered 401 and makes no outbound
\* call.
C3_UnverifiedIs401 ==
    \A r \in Requests :
        (Enforcing /\ Started(r) /\ ~SignatureValid(r)) =>
            (NoOutboundCall(r) /\ Answered(r, 401))

\* C4: a body that is not valid JSON is answered 500 and makes no outbound
\* call, whatever the signature.  Stated for the requests the signature gate
\* does not turn away first (enforcing mode off, or a valid signature): a
\* request the gate rejects is answered 401 before its body is parsed.
C4_InvalidJsonIs500 ==
    \A r \in Requests :
        (Started(r) /\ GatePassed(r) /\ ~JSONParse(input[r].body).ok) =>
            (NoOutboundCall(r) /\ Answered(r, 500))

ForwardableSigned(r) ==
    /\ ~Enforcing /\ SignatureValid(r)
    /\ SentWellFormedOrder(r) /\ ~SentTestOrder(r) /\ ~SentCancelledOrder(r)

OneCallWithOrderId(r) ==
    /\ Len(calls[r]) = 1
    /\ calls[r][1].event_id = JSString(OrderSent(r).id)
    /\ OrderSent(r).id \in {Num(1001), Str("1001")} => calls[r][1].event_id = "1001"
    /\ OrderSent(r).id = Num(7) => calls[r][1].event_id = "7"

\* C7 as stated: a well-formed, non-test, non-cancelled order sent with a
\* valid signature while enforcing mode is off makes exactly one outbound
\* call, whose event_id is the stringified order id.
C7_ForwardedOnceEverywhere ==
    \A r \in Requests :
        (Started(r) /\ ForwardableSigned(r)) => OneCallWithOrderId(r)

\* C7 amended: the same, unless the deployment is variant 2 in its local
\* mode (NODE_ENV 'development'), which answers 200 without any call.
C7_ForwardedOnceUnlessLocal ==
    \A r \in Requests :
        (Started(r) /\ ForwardableSigned(r)) =>
            IF LocalMode
            THEN NoOutboundCall(r) /\ sent[r] = <<Response(200, "OK (local test)")>>
            ELSE OneCallWithOrderId(r)

\* C7 witness: order 1001 was forwarded and answered OK.
C7_Witness ==
    \E r \in Requests :
        /\ Done(r) /\ ForwardableSigned(r) /\ ~LocalMode
        /\ OrderSent(r).id = Num(1001)
        /\ calls[r] # <<>> /\ calls[r][1].event_id = "1001"
        /\ sent[r] = <<Response(200, "OK")>>

\* The ad platform accepted the event: a 2xx response whose body is a JSON
\* object with code 0.
PlatformSuccess(o) ==
    /\ o.kind = "response" /\ o.ok
    /\ o.body.text = "json" /\ o.body.doc.t = "object"
    /\ o.body.doc.code = Num(0)

\* C8: 200 'OK' is sent only after the Forwarder succeeded (2xx, parsed body
\* with code === 0); every other outcome of the call ends in 500; the call is
\* never made a second time.
C8_OkOnlyOnPlatformSuccess ==
    \A r \in Requests :
        /\ Len(calls[r]) <= 1
        /\ (Done(r) /\ sent[r] = <<Response(200, "OK")>>) =>
               (Len(calls[r]) = 1 /\ PlatformSuccess(settled[r]))
        /\ (Done(r) /\ calls[r] # <<>> /\ ~PlatformSuccess(settled[r])) =>
               sent[r] = <<Response(500, "Error")>>

\* C8 witness: a 2xx reply without a code field ended the request in 500.
C8_Witness ==
    \E r \in Requests :
        /\ Done(r) /\ Len(calls[r]) = 1
        /\ settled[r] = Resolved(TRUE, JsonText(ReplyDoc(Undef)))
        /\ sent[r] = <<Response(500, "Error")>>

\* C9: when the constant-time comparison throws (a header whose length is
\* not the digest's), verification is false: in enforcing mode the request
\* ends in 401, never in the catch-all 500.
C9_LengthMismatchIs401 ==
    \A r \in Requests :
        (Enforcing /\ Done(r) /\ ~HeaderMissing(input[r].hdr)
            /\ input[r].hdr.len # DigestLen) => Answered(r, 401)

\* What a request produces when processed alone: from what it sent and how
\* its own outbound call settled.
Alone(v, env, in, o) ==
    LET rq == BodyParsed(v, in.hdr, BufferConcat(Chunks(in.body)))
        h == WebhookHandler(v, env, rq)
    IN  [calls |-> h.calls,
         sent |-> IF h.pc = "done" THEN h.sent
                  ELSE HandlerResume(InterpretResponse(v, o))]

\* C10: under every interleaving of the requests in flight, each request's
\* response, whether it calls out, and the event_id it sends are what the
\* request would produce alone.
C10_IndependentOfOthers ==
    \A r \in Requests :
        LET a == Alone(variant, NODE_ENV, input[r], settled[r])
        IN  /\ Started(r) => calls[r] = a.calls
            /\ Done(r) => sent[r] = a.sent

\* C10 witness: request 2 was forwarded and answered while request 1, for a
\* different order, was still awaiting its call.
C10_Witness ==
    /\ Requests = 1..MaxInFlight
    /\ pc[1] = "awaiting" /\ Done(2)
    /\ calls[2] # <<>>
    /\ calls[1][1].event_id # calls[2][1].event_id
    /\ sent[2] = <<Response(200, "OK")>>

====
